---- MODULE Spec2Model ----
(***************************************************************************)
(* A model of starcode.c: the sort/reduce step (seqsort, nukesort), the    *)
(* padding step (pad_useq), the k-mer lookup filter (new_lookup,           *)
(* lut_insert, lut_search, seq2id), the multithreading plan (plan_mt),     *)
(* the scheduler (run_plan) and the workers (do_query).                    *)
(*                                                                         *)
(* Strings are sequences of byte values, arrays are functions on 0..n-1,   *)
(* pointers to useq_t are indices into the variable 'heap' (0 is NULL).    *)
(***************************************************************************)
EXTENDS Integers, Sequences, FiniteSets, TLC

VARIABLES
  input,     \* the records read_file() returned, as read (never changed)
  mainpc,    \* position of the main thread in starcode() / run_plan()
  thrmax,    \* starcode(): thrmax
  tau,       \* starcode(): tau
  heap,      \* the useq_t records: id -> [seq, count, freed]
  items,     \* uSQ->items: array of pointers (ids, 0 is NULL)
  nitems,    \* uSQ->nitems
  ntries,    \* starcode(): ntries / mtplan->ntries
  height,    \* starcode(): height (padded length)
  med,       \* starcode(): med (median length)
  tries,     \* mtplan->tries: i -> [flag, currentjob, njobs, jobs]
  active,    \* mtplan->active
  jobsdone,  \* mtplan->jobsdone
  mutex,     \* owner of mtplan->mutex[0]: NoOwner, MainThread or <<trie, job>>
  triedone,  \* run_plan(): triedone
  idx,       \* run_plan(): idx
  wk,        \* the do_query threads: trie -> job -> [pc, i, last, dosearch, data, hits]
  trie,      \* per trie: the inserted strings and their data slots
  lut,       \* per trie: the lookup filter [slen, kmers, klen, bits]
  out,       \* the pair lines printed so far
  warn,      \* the "incomplete search" warnings printed so far
  krashed,   \* krash() was called
  ub,        \* an out-of-bounds or use-after-free access happened
  hitcap,    \* capacity the hit stacks can grow to (-1: unlimited)
  fl,        \* filter under test: [slen, kmers, klen, bits]
  fins,      \* sequences inserted in the filter under test
  fq,        \* last sequence searched in the filter under test
  fres,      \* return value of the last lut_search / lut_insert
  prev,      \* the output of the run before this one, if there was one
  sorter     \* seqsort() in steps: [buf1, calls, uaf, dfree]

vars == <<input, mainpc, thrmax, tau, heap, items, nitems, ntries, height, med,
          tries, active, jobsdone, mutex, triedone, idx, wk, trie, lut,
          out, warn, krashed, ub, hitcap, fl, fins, fq, fres, prev,
          sorter>>

sortvars == <<heap, items, nitems>>
planvars == <<tries, active, jobsdone, mutex, triedone, idx, wk, trie, lut,
              out, warn, krashed, ub>>
lutvars  == <<fl, fins, fq, fres>>

(***************************************************************************)
(* Bounds of the model.                                                    *)
(***************************************************************************)
MaxLen   == 3   \* longest input sequence
MaxSeqs  == 3   \* largest number of input records (single-threaded runs)
MaxTau   == 1   \* largest tau
MaxCount == 2   \* largest count field of an input record
MaxSortThr == 4 \* largest thrmax handed to seqsort in SpecSort
MaxSortEls == 4 \* largest numels in SpecSort
MaxPlanTries == 9  \* largest ntries handed to plan_mt in SpecPlan
MaxPlanExtra == 10 \* most records beyond ntries in SpecPlan
MaxLutLen == 3  \* largest height of the filter in SpecLut
MaxLutIns == 2  \* most sequences inserted in the filter in SpecLut
MaxAutoLen == 165  \* longest sequence in SpecTau
MaxFrontThr == 5   \* largest thrmax in SpecFront
MaxFrontEls == 16  \* largest number of unique sequences in SpecFront

(***************************************************************************)
(* Bytes and strings.                                                      *)
(***************************************************************************)
NUL == 0
SPC == 32
chA == 65
chC == 67
chN == 78

NULL == 0

Alphabet == {chC, chN}

\* All strings over S of length lo..hi.
StringsOf(S, lo, hi) == UNION {[1..n -> S] : n \in lo..hi}

\* What a read outside a buffer yields: no byte value.
OOB == -1

\* s[k] of a C string (0-based), the terminator included.
CharAt(s, k) ==
  IF k < 0 \/ k > Len(s) THEN OOB
  ELSE IF k < Len(s) THEN s[k + 1] ELSE NUL

\* strcmp(a, b): sign of the first differing byte.
RECURSIVE strcmpFrom(_, _, _)
strcmpFrom(a, b, k) ==
  IF CharAt(a, k) # CharAt(b, k)
    THEN (IF CharAt(a, k) < CharAt(b, k) THEN -1 ELSE 1)
    ELSE IF CharAt(a, k) = NUL THEN 0 ELSE strcmpFrom(a, b, k + 1)

strcmp(a, b) == strcmpFrom(a, b, 0)

min(a, b) == IF a < b THEN a ELSE b
max(a, b) == IF a > b THEN a ELSE b

\* memcpy(dst + d, src + s, n * sizeof(useq_t *))
memcpy(dst, d, src, s, n) ==
  [k \in DOMAIN dst |-> IF k >= d /\ k < d + n THEN src[s + (k - d)] ELSE dst[k]]

\* A memset that writes nothing (a mutant of memset0).
memset0Skip(dst, d, n) == dst

\* memset(dst + d, 0, n * sizeof(useq_t *))
memset0(dst, d, n) ==
  [k \in DOMAIN dst |-> IF k >= d /\ k < d + n THEN NULL ELSE dst[k]]

(***************************************************************************)
(* seqsort / nukesort.  A sort state S is [buf0, buf1, heap, uaf]: the two *)
(* alternating buffers, the records, and whether a freed record was used.  *)
(***************************************************************************)

\* SeqCmp with the lengths ignored (a mutant of SeqCmp).
SeqCmpNoLen(sl, sr) == strcmp(sl, sr)

\* The comparison of nukesort: shorter first, then strcmp.
SeqCmp(sl, sr) ==
  IF Len(sl) = Len(sr) THEN strcmp(sl, sr)
  ELSE IF Len(sl) < Len(sr) THEN -1 ELSE 1

\* destroy_useq(ur)
destroy_useq(hp, ur) == [hp EXCEPT ![ur].freed = TRUE]

\* The merge loop of nukesort. M is [S, i, j, idx, repeats]; the left run is
\* src[off .. off+s1-1], the right run src[off+s1 .. off+s1+s2-1], where src
\* is buf0 if b is 1 and buf1 otherwise, and the destination is the other.
RECURSIVE MergeLoop(_, _, _, _, _)
MergeLoop(M, b, off, s1, s2) ==
  LET src == IF b = 1 THEN M.S.buf0 ELSE M.S.buf1
      dst == IF b = 1 THEN M.S.buf1 ELSE M.S.buf0
      setdst(d) == IF b = 1 THEN [M.S EXCEPT !.buf1 = d] ELSE [M.S EXCEPT !.buf0 = d]
      l(k) == src[off + k]
      r(k) == src[off + s1 + k]
  IN
  IF ~(M.i + M.j < s1 + s2) THEN M
  ELSE IF M.j = s2 \/ r(M.j) = NULL
    THEN [M EXCEPT !.S = setdst(memcpy(dst, off + M.idx, src, off + M.i, s1 - M.i))]
  ELSE IF M.i = s1 \/ l(M.i) = NULL
    THEN [M EXCEPT !.S = setdst(memcpy(dst, off + M.idx, src, off + s1 + M.j, s2 - M.j))]
  ELSE
    LET ul  == l(M.i)
        ur  == r(M.j)
        hp  == M.S.heap
        bad == M.S.uaf \/ hp[ul].freed \/ hp[ur].freed
        cmp == SeqCmp(hp[ul].seq, hp[ur].seq)
    IN
    IF cmp = 0
      THEN LET hp1 == [hp EXCEPT ![ul].count = hp[ul].count + hp[ur].count]
               S1  == [setdst([dst EXCEPT ![off + M.idx] = ul])
                         EXCEPT !.heap = destroy_useq(hp1, ur), !.uaf = bad]
           IN MergeLoop([S |-> S1, i |-> M.i + 1, j |-> M.j + 1,
                         idx |-> M.idx + 1, repeats |-> M.repeats + 1],
                        b, off, s1, s2)
    ELSE IF cmp < 0
      THEN MergeLoop([M EXCEPT !.S = [setdst([dst EXCEPT ![off + M.idx] = ul])
                                        EXCEPT !.uaf = bad],
                               !.i = M.i + 1, !.idx = M.idx + 1],
                     b, off, s1, s2)
      ELSE MergeLoop([M EXCEPT !.S = [setdst([dst EXCEPT ![off + M.idx] = ur])
                                        EXCEPT !.uaf = bad],
                               !.j = M.j + 1, !.idx = M.idx + 1],
                     b, off, s1, s2)

\* nukesort(args) on the range [off, off+size) with args.b = b and
\* args.thread = thread; returns [S, repeats].  The two halves are sorted by
\* two joined threads when thread > 0 and by two calls otherwise; they work
\* on disjoint ranges and disjoint records, and the merge starts after both.
RECURSIVE nukesort(_, _, _, _, _)
nukesort(S, off, size, b, thread) ==
  IF size < 2 THEN [S |-> S, repeats |-> 0]
  ELSE
    LET size1 == size \div 2
        size2 == size1 + (size % 2)
        b1    == (b + 1) % 2
        thr1  == IF thread > 0 THEN thread - 1 ELSE 0
        a1    == nukesort(S, off, size1, b1, thr1)
        a2    == nukesort(a1.S, off + size1, size2, b1, thr1)
        M     == MergeLoop([S |-> a2.S, i |-> 0, j |-> 0, idx |-> 0, repeats |-> 0],
                           b, off, size1, size2)
        reps  == M.repeats + a1.repeats + a2.repeats
        offset == size - reps
        S3    == IF b = 1 THEN [M.S EXCEPT !.buf1 = memset0(M.S.buf1, off + offset, reps)]
                          ELSE [M.S EXCEPT !.buf0 = memset0(M.S.buf0, off + offset, reps)]
    IN [S |-> S3, repeats |-> reps]

\* while ((thrmax >> (args.thread + 1)) > 0) args.thread++;
RECURSIVE SortThreads(_, _)
SortThreads(thr, t) ==
  IF thr \div (2 ^ (t + 1)) > 0 THEN SortThreads(thr, t + 1) ELSE t

\* seqsort(data, numels, thrmax): returns [data, heap, uaf, ret].
seqsort(data, hp, numels, thr) ==
  LET a == nukesort([buf0 |-> data, buf1 |-> data, heap |-> hp, uaf |-> FALSE],
                    0, numels, 0, SortThreads(thr, 0))
  IN [data |-> a.S.buf0, heap |-> a.S.heap, uaf |-> a.S.uaf,
      ret |-> numels - a.repeats]

(***************************************************************************)
(* pad_useq.                                                               *)
(***************************************************************************)
\* The live records of the stack, in order.
ItemIds(its, n) == {its[k] : k \in 0..(n - 1)}

\* Compute maximum length (lines 934-940).
MaxLenOf(hp, its, n) ==
  LET lens == {Len(hp[id].seq) : id \in ItemIds(its, n)}
  IN IF lens = {} THEN 0 ELSE CHOOSE m \in lens : \A x \in lens : x <= m

\* count[len] after the padding loop (line 956).
LenCount(hp, its, n, len) ==
  Cardinality({k \in 0..(n - 1) : Len(hp[its[k]].seq) = len})

\* The pad put after the sequence (a mutant of PadSeq).
PadSeqRight(s, maxlen) ==
  [k \in 1..maxlen |-> IF k <= Len(s) THEN s[k] ELSE SPC]

\* padded: maxlen - len spaces, then the sequence (lines 964-965).
PadSeq(s, maxlen) ==
  [k \in 1..maxlen |-> IF k <= maxlen - Len(s) THEN SPC ELSE s[k - (maxlen - Len(s))]]

\* The largest length taken for the median (a mutant of MedianLoop).
MedianLoopMax(hp, its, n, maxlen, median, ccount) == maxlen

\* do { ccount += count[++(*median)]; } while (ccount < nitems / 2);
\* count has maxlen + 1 bins: a read of a bin past maxlen is out of bounds
\* and the loop is cut there.
RECURSIVE MedianLoop(_, _, _, _, _, _)
MedianLoop(hp, its, n, maxlen, median, ccount) ==
  LET m1 == median + 1
      c1 == ccount + LenCount(hp, its, n, m1)
  IN IF m1 > maxlen THEN m1
     ELSE IF c1 < n \div 2 THEN MedianLoop(hp, its, n, maxlen, m1, c1)
     ELSE m1

\* pad_useq(useqS, &median): [heap, maxlen, median]
pad_useq(hp, its, n) ==
  LET maxlen == MaxLenOf(hp, its, n)
  IN [heap |-> [id \in DOMAIN hp |->
                  IF id \in ItemIds(its, n) /\ Len(hp[id].seq) # maxlen
                    THEN [hp[id] EXCEPT !.seq = PadSeq(hp[id].seq, maxlen)]
                    ELSE hp[id]],
      maxlen |-> maxlen,
      median |-> MedianLoop(hp, its, n, maxlen, 0, 0)]

\* The pad removed for printing (lines 249-257): P1 is the first position
\* that holds no space.
RECURSIVE PadLen(_, _)
PadLen(s, p) == IF p < Len(s) /\ s[p + 1] = SPC THEN PadLen(s, p + 1) ELSE p

Unpad(s) == SubSeq(s, PadLen(s, 0) + 1, Len(s))

(***************************************************************************)
(* The lookup filter: new_lookup, seq2id, lut_insert, lut_search.          *)
(***************************************************************************)
MAX_K_FOR_LOOKUP == 14

\* A filter whose k-mers all have the target size (a mutant of new_lookup).
new_lookupEven(slen, maxlen, t) ==
  [slen  |-> maxlen,
   kmers |-> t + 1,
   klen  |-> [i \in 0..t |-> min(MAX_K_FOR_LOOKUP, slen \div (t + 1))],
   bits  |-> [i \in 0..t |-> {}]]

\* new_lookup(slen, maxlen, tau), lines 1028-1041: a filter with no bit set.
new_lookup(slen, maxlen, t) ==
  LET k   == slen \div (t + 1)
      rem == t - (slen % (t + 1))
  IN [slen  |-> maxlen,
      kmers |-> t + 1,
      klen  |-> [i \in 0..t |->
                   IF k > MAX_K_FOR_LOOKUP THEN MAX_K_FOR_LOOKUP
                   ELSE k - (IF rem - i > 0 THEN 1 ELSE 0)],
      bits  |-> [i \in 0..t |-> {}]]

\* The value seq2id adds for a byte; -1 for any other byte.
BaseCode(c) ==
  IF c \in {65, 97, SPC} THEN 0
  ELSE IF c \in {67, 99} THEN 1
  ELSE IF c \in {71, 103} THEN 2
  ELSE IF c \in {84, 116} THEN 3
  ELSE -1

\* seq2id(seq + off, slen): the loop from position i with seqid so far.
\* -1: a byte that is no base, -2: the terminator, -3: a read out of bounds.
RECURSIVE seq2idFrom(_, _, _, _, _)
seq2idFrom(seq, off, slen, i, seqid) ==
  IF ~(i < slen) THEN seqid
  ELSE LET c == CharAt(seq, off + i)
       IN IF c = OOB THEN -3
          ELSE IF BaseCode(c) < 0 THEN (IF c = NUL THEN -2 ELSE -1)
          ELSE seq2idFrom(seq, off, slen, i + 1,
                          IF i < slen - 1 THEN (seqid + BaseCode(c)) * 4
                                          ELSE seqid + BaseCode(c))

seq2id(seq, off, slen) == seq2idFrom(seq, off, slen, 0, 0)

\* offset of k-mer i: lut->slen minus the lengths of the k-mers i..kmers-1.
RECURSIVE KmerOffset(_, _)
KmerOffset(l, i) ==
  IF i >= l.kmers THEN l.slen ELSE KmerOffset(l, i + 1) - l.klen[i]

\* lut_insert(lut, query), lines 1128-1138: [lut, ret], from k-mer i down.
RECURSIVE lut_insertFrom(_, _, _)
lut_insertFrom(l, seq, i) ==
  IF i < 0 THEN [lut |-> l, ret |-> 0]
  ELSE LET seqid == seq2id(seq, KmerOffset(l, i), l.klen[i])
       IN IF seqid >= 0
            THEN lut_insertFrom([l EXCEPT !.bits[i] = @ \cup {seqid}], seq, i - 1)
          ELSE IF seqid = -2 THEN [lut |-> l, ret |-> 1]
          ELSE lut_insertFrom(l, seq, i - 1)

lut_insert(l, seq) == lut_insertFrom(l, seq, l.kmers - 1)

\* lut_search(lut, query), lines 1100-1115, from k-mer i and shift j.
RECURSIVE lut_searchFrom(_, _, _, _)
lut_searchFrom(l, seq, i, j) ==
  IF i < 0 THEN 0
  ELSE IF j > l.kmers - 1 - i
    THEN (IF i = 0 THEN 0
          ELSE lut_searchFrom(l, seq, i - 1, -(l.kmers - 1 - (i - 1))))
  ELSE LET seqid == seq2id(seq, KmerOffset(l, i) + j, l.klen[i])
       IN IF seqid = -2 THEN -1
          ELSE IF seqid < 0 THEN lut_searchFrom(l, seq, i, j + 1)
          ELSE IF seqid \in l.bits[i] THEN 1
          ELSE lut_searchFrom(l, seq, i, j + 1)

lut_search(l, seq) == lut_searchFrom(l, seq, l.kmers - 1, 0)

(***************************************************************************)
(* The trie, behind its interface: a trie is a function from the inserted  *)
(* strings to their data slots (NULL or a record).                         *)
(***************************************************************************)
new_trie == <<>>

\* insert_string_wo_malloc(trie, seq, &node_pos): the trie with the slot of
\* seq, which a new leaf holds as NULL.
insert_string_wo_malloc(tr, seq) ==
  [s \in (DOMAIN tr) \cup {seq} |-> IF s \in DOMAIN tr THEN tr[s] ELSE NULL]

\* Levenshtein distance of a[1..i] and b[1..j].
RECURSIVE Lev(_, _, _, _)
Lev(a, b, i, j) ==
  IF i = 0 THEN j
  ELSE IF j = 0 THEN i
  ELSE IF a[i] = b[j] THEN Lev(a, b, i - 1, j - 1)
  ELSE 1 + min(Lev(a, b, i - 1, j - 1), min(Lev(a, b, i - 1, j), Lev(a, b, i, j - 1)))

\* The distance of two padded sequences: the edit distance of the sequences
\* without their pads.
EditDistance(a, b) ==
  LET ua == Unpad(a)
      ub0 == Unpad(b)
  IN Lev(ua, ub0, Len(ua), Len(ub0))

\* The ids of a set in increasing order, as an array.
RECURSIVE SortedIds(_)
SortedIds(S) ==
  IF S = {} THEN <<>>
  ELSE LET m == CHOOSE x \in S : \A y \in S : x <= y
       IN <<m>> \o SortedIds(S \ {m})

\* search(trie, seq, tau, hits, start, trail): the tower of hits, hits[d]
\* holding the records of the filled slots at distance d.  A stack that can
\* hold cap items (cap < 0: it grows as needed) keeps the first cap of them
\* and counts the others in nitems only.
search(tr, seq, t, start, trail, cap) ==
  [d \in 0..t |->
     LET found == SortedIds({tr[s] : s \in {x \in DOMAIN tr :
                       tr[x] # NULL /\ EditDistance(seq, x) = d}})
         nslots == IF cap < 0 THEN Len(found) ELSE cap
     IN [nitems |-> Len(found),
         nslots |-> nslots,
         items  |-> SubSeq(found, 1, min(Len(found), nslots))]]

(***************************************************************************)
(* plan_mt.                                                                *)
(***************************************************************************)
TRIE_FREE == "FREE"
TRIE_BUSY == "BUSY"
TRIE_DONE == "DONE"

\* Three tries per thread and no more (a mutant of NTriesFor).
NTriesForPlain(thr) == 3 * thr

\* starcode(), line 61: the number of tries for a thread budget.
NTriesFor(thr) == 3 * thr + (IF thr % 2 = 0 THEN 1 ELSE 0)

\* The bounds without the remainder (a mutant of Bounds).
BoundsNoRem(n, N, i) == (n \div N) * i

\* bounds[i] = Q*i + min(i, R) (lines 344-347)
Bounds(n, N, i) == (n \div N) * i + min(i, n % N)

\* NJobs one short (a mutant of NJobs).
NJobsHalf(N) == N \div 2

\* int njobs = (ntries+1)/2 (line 358)
NJobs(N) == (N + 1) \div 2

\* The blocks taken backwards from the trie's own (a mutant of JobBlock).
JobBlockBack(N, i, j) == (i + N - j) % N

\* int idx = (i+j) % ntries (line 383)
JobBlock(N, i, j) == (i + j) % N

\* The j-th job of trie i (lines 383-401).  The trie, the node arena, the
\* filter and the flag made in round i of the loop of line 356 are named i.
MtJob(n, N, t, i, j) ==
  LET blk == JobBlock(N, i, j)
  IN [start    |-> Bounds(n, N, blk),
      end      |-> Bounds(n, N, blk + 1) - 1,
      tau      |-> t,
      build    |-> (j = 0),
      trie     |-> i,
      node_pos |-> i,
      lut      |-> i,
      trieflag |-> i,
      queryid  |-> blk + 1,
      trieid   |-> i + 1]

\* mttries of plan_mt(tau, height, medianlen, ntries, useqS) (lines 356-403)
MtTries(n, N, t) ==
  [i \in 0..(N - 1) |->
     [flag       |-> TRIE_FREE,
      currentjob |-> 0,
      njobs      |-> NJobs(N),
      jobs       |-> [j \in 0..(NJobs(N) - 1) |-> MtJob(n, N, t, i, j)]]]

\* A do_query thread that was not created yet.
\* 'data' is the set of the strings whose slot the pointer refers to: empty
\* for a NULL pointer.
\* 'hits' is the tower of the last search (empty before the first one).
NoThread == [pc |-> "idle", i |-> 0, last |-> NULL, dosearch |-> FALSE,
             data |-> {}, hits |-> <<>>]

(***************************************************************************)
(* The state of the parts of the program that a specification leaves       *)
(* alone.                                                                  *)
(***************************************************************************)
NoOwner == <<>>
MainThread == <<-1, -1>>

PlanIdle ==
  /\ tries = <<>> /\ active = 0 /\ jobsdone = 0 /\ mutex = NoOwner
  /\ triedone = 0 /\ idx = -1 /\ wk = <<>> /\ trie = <<>> /\ lut = <<>>
  /\ out = {} /\ warn = {} /\ krashed = FALSE /\ ub = FALSE

LutIdle == fl = <<>> /\ fins = {} /\ fq = <<>> /\ fres = 0

\* No seqsort under way, thread by thread.
NoSort == [buf1 |-> <<>>, calls |-> <<>>, uaf |-> FALSE, dfree |-> FALSE]

\* The first run of the program: there is no output of an earlier run.
FirstRun == [ran |-> FALSE, lines |-> {}]

\* The stack read_file() returns for the records recs (a sequence of
\* [seq, count]): items[k] points to record k+1.
InputHeap(recs) ==
  [id \in 1..Len(recs) |-> [seq |-> recs[id].seq, count |-> recs[id].count,
                            freed |-> FALSE]]
InputItems(recs) == [k \in 0..(Len(recs) - 1) |-> k + 1]

\* The input arrays of SpecSort: short sequences, so that equal ones are
\* frequent, with counts 1..MaxCount.
SortSeqs == StringsOf({chA, chC}, 1, 2)
SortRecs == [seq : SortSeqs, count : 1..MaxCount]
SortInputs == UNION {[1..n -> SortRecs] : n \in 1..MaxSortEls}

InitSort ==
  /\ mainpc = "sort"
  /\ thrmax \in 1..MaxSortThr
  /\ tau = 0
  /\ \E recs \in SortInputs :
       /\ input = recs
       /\ heap = InputHeap(recs)
       /\ items = InputItems(recs)
       /\ nitems = Len(recs)
  /\ ntries = 0 /\ height = 0 /\ med = -1
  /\ hitcap = -1
  /\ PlanIdle /\ LutIdle
  /\ prev = FirstRun /\ sorter = NoSort

(***************************************************************************)
(* starcode(), line 58: uSQ->nitems = seqsort(uSQ->items, uSQ->nitems,     *)
(* thrmax).                                                                *)
(***************************************************************************)
Sort ==
  /\ mainpc = "sort" /\ ~krashed
  /\ LET r == seqsort(items, heap, nitems, thrmax)
     IN /\ items' = r.data
        /\ heap' = r.heap
        /\ nitems' = r.ret
        /\ ub' = (ub \/ r.uaf)
  /\ mainpc' = "ntries"
  /\ UNCHANGED <<input, prev, sorter, thrmax, tau, ntries, height, med, tries, active,
                 jobsdone, mutex, triedone, idx, wk, trie, lut, out, warn,
                 krashed, hitcap>>
  /\ UNCHANGED lutvars

NextSort == Sort

SpecSort == InitSort /\ [][NextSort]_vars

(***************************************************************************)
(* seqsort() thread by thread.  Every call of nukesort is named by its     *)
(* path from the first call (1: arg1, 2: arg2) and takes its steps on its  *)
(* own: the calls made in threads (arg1.thread > 0) run concurrently, the  *)
(* others one after the other.  buf0 is uSQ->items, buf1 is the buffer of  *)
(* line 465; sorter.uaf records the use of a destroyed record, and         *)
(* sorter.dfree the destruction of a destroyed record.                     *)
(***************************************************************************)
MaxNukeEls == 5
MaxNukeThr == 4

NukeSeqs == {<<chA>>, <<chC>>, <<chA, chA>>}
NukeInputs ==
  UNION {[1..n -> [seq : NukeSeqs, count : {1}]] : n \in 1..MaxNukeEls}

InitNuke ==
  /\ mainpc = "sort"
  /\ thrmax \in 1..MaxNukeThr
  /\ tau = 0
  /\ \E recs \in NukeInputs :
       /\ input = recs
       /\ heap = InputHeap(recs)
       /\ items = InputItems(recs)
       /\ nitems = Len(recs)
  /\ ntries = 0 /\ height = 0 /\ med = -1
  /\ hitcap = -1
  /\ PlanIdle /\ LutIdle
  /\ prev = FirstRun /\ sorter = NoSort

\* A sortargs_t at the entry of nukesort.
NukeArgs(off, size, b, thread) ==
  [off |-> off, size |-> size, b |-> b, thread |-> thread, pc |-> "start",
   i |-> 0, j |-> 0, idx |-> 0, repeats |-> 0]

\* seqsort up to its call of nukesort (lines 465-485).
SeqsortCall ==
  /\ mainpc = "sort" /\ ~krashed
  /\ sorter' = [buf1  |-> items,
                calls |-> (<<>> :> NukeArgs(0, nitems, 0, SortThreads(thrmax, 0))),
                uaf   |-> FALSE,
                dfree |-> FALSE]
  /\ mainpc' = "sorting"
  /\ UNCHANGED <<input, prev, thrmax, tau, heap, items, nitems, ntries, height,
                 med, hitcap>>
  /\ UNCHANGED planvars /\ UNCHANGED lutvars

\* The call p has been made and its thread (or its caller) may run it: the
\* two calls of lines 529-530 run at once, those of lines 539-540 in turn.
NukeRuns(p) ==
  IF Len(p) = 0 THEN TRUE
  ELSE LET par == SubSeq(p, 1, Len(p) - 1)
       IN IF sorter.calls[par].thread > 0 \/ p[Len(p)] = 1 THEN TRUE
          ELSE sorter.calls[par \o <<1>>].pc = "done"

\* A join that does not wait (a mutant of Joined).
JoinedEarly(p) == TRUE

\* pthread_join of both threads, or the return of both calls (lines
\* 535-541).
Joined(p) ==
  /\ sorter.calls[p \o <<1>>].pc = "done"
  /\ sorter.calls[p \o <<2>>].pc = "done"

\* The entry of nukesort (lines 515-532): return at once, or make the two
\* calls.
NukeStart(p) ==
  /\ mainpc = "sorting"
  /\ p \in DOMAIN sorter.calls /\ NukeRuns(p)
  /\ LET c     == sorter.calls[p]
         size1 == c.size \div 2
         size2 == size1 + (c.size % 2)
         b1    == (c.b + 1) % 2
         thr1  == IF c.thread > 0 THEN c.thread - 1 ELSE 0
     IN /\ c.pc = "start"
        /\ IF c.size < 2
             THEN sorter' = [sorter EXCEPT !.calls[p].pc = "done"]
             ELSE sorter' = [sorter EXCEPT !.calls =
                    ((p \o <<1>>) :> NukeArgs(c.off, size1, b1, thr1))
                    @@ ((p \o <<2>>) :> NukeArgs(c.off + size1, size2, b1, thr1))
                    @@ [sorter.calls EXCEPT ![p].pc = "join"]]
  /\ UNCHANGED <<input, prev, mainpc, thrmax, tau, heap, items, nitems, ntries,
                 height, med, hitcap>>
  /\ UNCHANGED planvars /\ UNCHANGED lutvars

\* The two halves are sorted: the merge begins (lines 544-553).
NukeJoin(p) ==
  /\ mainpc = "sorting"
  /\ p \in DOMAIN sorter.calls /\ NukeRuns(p)
  /\ sorter.calls[p].pc = "join"
  /\ Joined(p)
  /\ sorter' = [sorter EXCEPT !.calls[p].pc = "merge"]
  /\ UNCHANGED <<input, prev, mainpc, thrmax, tau, heap, items, nitems, ntries,
                 height, med, hitcap>>
  /\ UNCHANGED planvars /\ UNCHANGED lutvars

\* One round of the merge loop of the call c (lines 555-590) from the
\* source src to the destination dst: [c, dst, heap, uaf, dfree].
MergeRound(c, src, dst, hp) ==
  LET s1  == c.size \div 2
      s2  == s1 + (c.size % 2)
      l(k) == src[c.off + k]
      r(k) == src[c.off + s1 + k]
      same == [c |-> c, dst |-> dst, heap |-> hp, uaf |-> FALSE, dfree |-> FALSE]
  IN
  IF ~(c.i + c.j < c.size) THEN [same EXCEPT !.c.pc = "pad"]
  ELSE IF c.j = s2 \/ r(c.j) = NULL
    THEN [same EXCEPT !.c.pc = "pad",
                      !.dst = memcpy(dst, c.off + c.idx, src, c.off + c.i, s1 - c.i)]
  ELSE IF c.i = s1 \/ l(c.i) = NULL
    THEN [same EXCEPT !.c.pc = "pad",
                      !.dst = memcpy(dst, c.off + c.idx, src, c.off + s1 + c.j, s2 - c.j)]
  ELSE
    LET ul  == l(c.i)
        ur  == r(c.j)
        bad == hp[ul].freed \/ hp[ur].freed
        cmp == SeqCmp(hp[ul].seq, hp[ur].seq)
    IN
    IF cmp = 0
      THEN [c     |-> [c EXCEPT !.i = c.i + 1, !.j = c.j + 1, !.idx = c.idx + 1,
                                !.repeats = c.repeats + 1],
            dst   |-> [dst EXCEPT ![c.off + c.idx] = ul],
            heap  |-> destroy_useq([hp EXCEPT ![ul].count = hp[ul].count + hp[ur].count], ur),
            uaf   |-> bad,
            dfree |-> hp[ur].freed]
    ELSE IF cmp < 0
      THEN [same EXCEPT !.c.i = c.i + 1, !.c.idx = c.idx + 1,
                        !.dst = [dst EXCEPT ![c.off + c.idx] = ul], !.uaf = bad]
      ELSE [same EXCEPT !.c.j = c.j + 1, !.c.idx = c.idx + 1,
                        !.dst = [dst EXCEPT ![c.off + c.idx] = ur], !.uaf = bad]

\* The call p writes its destination d: buf1 if b is set, buf0 otherwise.
NukeWrite(p, c, d, uaf, dfree) ==
  /\ sorter' = [sorter EXCEPT !.calls[p] = c,
                              !.buf1 = IF sorter.calls[p].b = 1 THEN d ELSE @,
                              !.uaf = @ \/ uaf,
                              !.dfree = @ \/ dfree]
  /\ items' = IF sorter.calls[p].b = 1 THEN items ELSE d

\* A round of the merge loop of the call p.
NukeMerge(p) ==
  /\ mainpc = "sorting"
  /\ p \in DOMAIN sorter.calls /\ NukeRuns(p)
  /\ sorter.calls[p].pc = "merge"
  /\ LET c == sorter.calls[p]
         m == MergeRound(c, IF c.b = 1 THEN items ELSE sorter.buf1,
                            IF c.b = 1 THEN sorter.buf1 ELSE items, heap)
     IN /\ NukeWrite(p, m.c, m.dst, m.uaf, m.dfree)
        /\ heap' = m.heap
  /\ UNCHANGED <<input, prev, mainpc, thrmax, tau, nitems, ntries, height, med,
                 hitcap>>
  /\ UNCHANGED planvars /\ UNCHANGED lutvars

\* Accumulate repeats, pad with NULLs and return (lines 592-598).
NukePad(p) ==
  /\ mainpc = "sorting"
  /\ p \in DOMAIN sorter.calls /\ NukeRuns(p)
  /\ sorter.calls[p].pc = "pad"
  /\ LET c    == sorter.calls[p]
         reps == c.repeats + sorter.calls[p \o <<1>>].repeats
                           + sorter.calls[p \o <<2>>].repeats
         dst  == IF c.b = 1 THEN sorter.buf1 ELSE items
     IN NukeWrite(p, [c EXCEPT !.repeats = reps, !.pc = "done"],
                  memset0(dst, c.off + (c.size - reps), reps), FALSE, FALSE)
  /\ UNCHANGED <<input, prev, mainpc, thrmax, tau, heap, nitems, ntries, height,
                 med, hitcap>>
  /\ UNCHANGED planvars /\ UNCHANGED lutvars

\* free(buffer); return numels - args.repeats (lines 487-488), assigned to
\* uSQ->nitems (line 58).
SeqsortReturn ==
  /\ mainpc = "sorting"
  /\ sorter.calls[<<>>].pc = "done"
  /\ nitems' = nitems - sorter.calls[<<>>].repeats
  /\ mainpc' = "ntries"
  /\ UNCHANGED <<input, prev, sorter, thrmax, tau, heap, items, ntries, height,
                 med, hitcap>>
  /\ UNCHANGED planvars /\ UNCHANGED lutvars

\* The calls of nukesort that a sort of MaxNukeEls records and more makes.
NukePaths == UNION {[1..d -> {1, 2}] : d \in 0..MaxNukeEls}

NextNuke ==
  \/ SeqsortCall
  \/ \E p \in NukePaths : NukeStart(p)
  \/ \E p \in NukePaths : NukeJoin(p)
  \/ \E p \in NukePaths : NukeMerge(p)
  \/ \E p \in NukePaths : NukePad(p)
  \/ SeqsortReturn

SpecNuke == InitNuke /\ [][NextNuke]_vars

(***************************************************************************)
(* starcode(): the steps of the main thread after the sort.                *)
(***************************************************************************)
\* Get number of tries (lines 61-65).
\* A test that never finds too few sequences (a mutant of TooFew).
TooFewNever(n, N) == FALSE

\* if (uSQ->nitems < ntries) (line 62)
TooFew(n, N) == n < N

GetNtries ==
  /\ mainpc = "ntries" /\ ~krashed
  /\ IF TooFew(nitems, NTriesFor(thrmax))
       THEN ntries' = 1 /\ thrmax' = 1
       ELSE ntries' = NTriesFor(thrmax) /\ thrmax' = thrmax
  /\ mainpc' = "pad"
  /\ UNCHANGED <<input, prev, sorter, tau, heap, items, nitems, height, med, hitcap>>
  /\ UNCHANGED planvars /\ UNCHANGED lutvars

\* The automatic tau without its cap (a mutant of AutoTau).
AutoTauNoCap(m) == 2 + (m \div 30)

\* tau = med > 160 ? 8 : 2 + med/30 (line 72)
AutoTau(m) == IF m > 160 THEN 8 ELSE 2 + (m \div 30)

\* Pad sequences (and return the median size) (lines 69-70).
Pad ==
  /\ mainpc = "pad" /\ ~krashed
  /\ LET r == pad_useq(heap, items, nitems)
     IN /\ heap' = r.heap
        /\ height' = r.maxlen
        /\ med' = r.median
  /\ mainpc' = "tau"
  /\ UNCHANGED <<input, prev, sorter, thrmax, tau, items, nitems, ntries, hitcap>>
  /\ UNCHANGED planvars /\ UNCHANGED lutvars

\* Compute 'tau' from the median in "auto" mode (lines 71-76).
SetTau ==
  /\ mainpc = "tau" /\ ~krashed
  /\ tau' = IF tau < 0 THEN AutoTau(med) ELSE tau
  /\ mainpc' = "plan"
  /\ UNCHANGED <<input, prev, sorter, thrmax, heap, items, nitems, ntries, height, med,
                 hitcap>>
  /\ UNCHANGED planvars /\ UNCHANGED lutvars

\* mtplan = plan_mt(tau, height, med, ntries, uSQ) (line 79, lines 319-414)
PlanMt ==
  /\ mainpc = "plan" /\ ~krashed
  /\ tries' = MtTries(nitems, ntries, tau)
  /\ trie' = [i \in 0..(ntries - 1) |-> new_trie]
  /\ lut' = [i \in 0..(ntries - 1) |-> new_lookup(med, height, tau)]
  /\ wk' = [i \in 0..(ntries - 1) |-> [j \in 0..(NJobs(ntries) - 1) |-> NoThread]]
  /\ active' = 0
  /\ jobsdone' = 0
  /\ triedone' = 0
  /\ idx' = -1
  /\ mainpc' = "run"
  /\ UNCHANGED <<input, prev, sorter, thrmax, tau, heap, items, nitems, ntries, height, med,
                 mutex, out, warn, krashed, ub, hitcap>>
  /\ UNCHANGED lutvars

(***************************************************************************)
(* run_plan(): the coordinator.                                            *)
(***************************************************************************)
datavars == <<input, prev, sorter, thrmax, tau, heap, items, nitems, ntries, height, med, hitcap>>

\* A lock that any thread can take at any time (a mutant of CanLock).
CanLockAlways(m) == TRUE

\* pthread_mutex_lock(mutex) returns once no thread holds the mutex m
\* (lines 110, 142, 277).
CanLock(m) == m = NoOwner

\* while (triedone < ntries): idx = (idx+1) % ntries; lock (lines 106-110)
CoordLock ==
  /\ mainpc = "run" /\ ~krashed
  /\ triedone < ntries
  /\ CanLock(mutex)
  /\ idx' = (idx + 1) % ntries
  /\ mutex' = MainThread
  /\ mainpc' = "locked"
  /\ UNCHANGED <<tries, active, jobsdone, triedone, wk, trie, lut, out, warn,
                 krashed, ub>>
  /\ UNCHANGED datavars /\ UNCHANGED lutvars

\* The guard of line 113 without the test of the flag (a mutant of TrieIdle).
TrieIdleNoFlag(t) == active < thrmax

\* mttrie->flag == TRIE_FREE && mtplan->active < thrmax (line 113)
TrieIdle(t) == tries[t].flag = TRIE_FREE /\ active < thrmax

\* The position a new do_query thread starts at: the head of its loop, or
\* its end when the range is empty (line 177).
ThreadStart(job) ==
  [NoThread EXCEPT !.pc = IF job.start <= job.end THEN "query" ELSE "exit",
                   !.i = job.start]

\* The visit of trie idx under the lock (lines 113-138): nothing when the
\* trie is not idle or no thread is available; the trie is flagged done when
\* it has no more jobs; else its next job is started in a detached thread.
CoordVisit ==
  /\ mainpc = "locked" /\ ~krashed
  /\ IF ~TrieIdle(idx)
       THEN UNCHANGED <<tries, triedone, active, wk>>
     ELSE IF tries[idx].currentjob = tries[idx].njobs
       THEN /\ tries' = [tries EXCEPT ![idx].flag = TRIE_DONE]
            /\ triedone' = triedone + 1
            /\ UNCHANGED <<active, wk>>
       ELSE LET j == tries[idx].currentjob
            IN /\ tries' = [tries EXCEPT ![idx].flag = TRIE_BUSY,
                                         ![idx].currentjob = j + 1]
               /\ wk' = [wk EXCEPT ![idx][j] = ThreadStart(tries[idx].jobs[j])]
               /\ active' = active + 1
               /\ UNCHANGED triedone
  /\ mainpc' = "check"
  /\ UNCHANGED <<jobsdone, mutex, idx, trie, lut, out, warn, krashed, ub>>
  /\ UNCHANGED datavars /\ UNCHANGED lutvars

\* while (active == thrmax) pthread_cond_wait(monitor, mutex) (lines 141-143)
CoordWait ==
  /\ mainpc = "check" /\ ~krashed
  /\ active = thrmax
  /\ mutex' = NoOwner
  /\ mainpc' = "wait"
  /\ UNCHANGED <<tries, active, jobsdone, triedone, idx, wk, trie, lut, out,
                 warn, krashed, ub>>
  /\ UNCHANGED datavars /\ UNCHANGED lutvars

\* pthread_cond_wait returns once signalled and the mutex is free.
CoordWake ==
  /\ mainpc = "wake" /\ ~krashed
  /\ CanLock(mutex)
  /\ mutex' = MainThread
  /\ mainpc' = "check"
  /\ UNCHANGED <<tries, active, jobsdone, triedone, idx, wk, trie, lut, out,
                 warn, krashed, ub>>
  /\ UNCHANGED datavars /\ UNCHANGED lutvars

\* pthread_mutex_unlock(mtplan->mutex) (line 145)
CoordUnlock ==
  /\ mainpc = "check" /\ ~krashed
  /\ active # thrmax
  /\ mutex' = NoOwner
  /\ mainpc' = "run"
  /\ UNCHANGED <<tries, active, jobsdone, triedone, idx, wk, trie, lut, out,
                 warn, krashed, ub>>
  /\ UNCHANGED datavars /\ UNCHANGED lutvars

\* The loop of run_plan ends and starcode returns (lines 106, 149, 83-87).
CoordReturn ==
  /\ mainpc = "run" /\ ~krashed
  /\ ~(triedone < ntries)
  /\ mainpc' = "done"
  /\ UNCHANGED planvars /\ UNCHANGED datavars /\ UNCHANGED lutvars

(***************************************************************************)
(* do_query(): the worker of the j-th job of trie t.                       *)
(***************************************************************************)
\* while (a[k] == b[k]) k++ from position k (lines 204, 212): [len, oob].
\* Equal strings make the loop read past their terminators.
RECURSIVE CommonPrefix(_, _, _)
CommonPrefix(a, b, k) ==
  IF CharAt(a, k) = OOB \/ CharAt(b, k) = OOB THEN [len |-> k, oob |-> TRUE]
  ELSE IF CharAt(a, k) = CharAt(b, k) THEN CommonPrefix(a, b, k + 1)
  ELSE [len |-> k, oob |-> FALSE]

\* What a read past the slots of a hit stack yields: no record.
GARBAGE == -1

\* for (int dist = 1 ; dist < tau+1 ; dist++) (line 237)
FirstDist == 1

\* The lines printed for the hits (lines 237-261): one for each of the
\* nitems entries of hits[1..tau].
PairLines(t, j, q, hits, tt) ==
  UNION {{[t |-> t, j |-> j, q |-> q, d |-> d, k |-> k,
           m |-> IF k < Len(hits[d].items) THEN hits[d].items[k + 1] ELSE GARBAGE]
          : k \in 0..(hits[d].nitems - 1)} : d \in FirstDist..tt}

\* if (hits[j]->nitems > hits[j]->nslots) for some j (lines 227-233)
Truncated(hits) == \E d \in DOMAIN hits : hits[d].nitems > hits[d].nslots

\* The head of the loop body for record i (lines 178-195): the lookup, and
\* on a build job the insertion in the filter and in the trie.
WQuery(t, j) ==
  /\ wk[t][j].pc = "query" /\ ~krashed
  /\ LET job   == tries[t].jobs[j]
         query == items[wk[t][j].i]
         seq   == heap[query].seq
         ins   == lut_insert(lut[job.lut], seq)
         tr1   == insert_string_wo_malloc(trie[job.trie], seq)
     IN /\ wk' = [wk EXCEPT ![t][j].dosearch = (lut_search(lut[job.lut], seq) = 1),
                            ![t][j].data = IF job.build THEN {seq} ELSE {},
                            ![t][j].pc = "search"]
        /\ IF job.build
             THEN /\ lut' = [lut EXCEPT ![job.lut] = ins.lut]
                  /\ trie' = [trie EXCEPT ![job.trie] = tr1]
                  /\ krashed' = (ins.ret # 0 \/ tr1[seq] # NULL)
             ELSE UNCHANGED <<lut, trie, krashed>>
  /\ UNCHANGED <<mainpc, tries, active, jobsdone, mutex, triedone, idx, out,
                 warn, ub>>
  /\ UNCHANGED datavars /\ UNCHANGED lutvars

\* The search of record i and the printing of its pairs (lines 197-265).
WSearch(t, j) ==
  /\ wk[t][j].pc = "search" /\ ~krashed
  /\ LET w     == wk[t][j]
         job   == tries[t].jobs[j]
         query == items[w.i]
         seq   == heap[query].seq
         trail == IF w.i < job.end
                    THEN CommonPrefix(seq, heap[items[w.i + 1]].seq, 0)
                    ELSE [len |-> 0, oob |-> FALSE]
         start == IF w.last # NULL
                    THEN CommonPrefix(seq, heap[w.last].seq, 0)
                    ELSE [len |-> 0, oob |-> FALSE]
         hits  == search(trie[job.trie], seq, job.tau, start.len, trail.len, hitcap)
         lines == PairLines(t, j, query, hits, job.tau)
         oob   == trail.oob \/ start.oob \/ \E ln \in lines : ln.m = GARBAGE
     IN IF w.dosearch
          THEN /\ \E segv \in (IF oob THEN BOOLEAN ELSE {FALSE}) :
                    /\ krashed' = segv
                    /\ out' = IF segv THEN out ELSE out \cup lines
               /\ ub' = (ub \/ oob)
               /\ warn' = IF Truncated(hits)
                            THEN warn \cup {[t |-> t, j |-> j, q |-> query]}
                            ELSE warn
               /\ wk' = [wk EXCEPT ![t][j].last = query, ![t][j].hits = hits,
                                   ![t][j].pc = "fill"]
          ELSE /\ wk' = [wk EXCEPT ![t][j].pc = "fill"]
               /\ UNCHANGED <<out, warn, krashed, ub>>
  /\ UNCHANGED <<mainpc, tries, active, jobsdone, mutex, triedone, idx, trie, lut>>
  /\ UNCHANGED datavars /\ UNCHANGED lutvars

\* The slot filled after the search of the record (a mutant of FillSlot:
\* the slot is filled by the insertion).
FillSlotNever(tr, data, query) == tr

\* *data = query (line 269)
FillSlot(tr, data, query) ==
  [s \in DOMAIN tr |-> IF s \in data THEN query ELSE tr[s]]

\* The end of the loop body (lines 267-270) and the step of the loop.
WFill(t, j) ==
  /\ wk[t][j].pc = "fill" /\ ~krashed
  /\ LET w   == wk[t][j]
         job == tries[t].jobs[j]
     IN /\ trie' = IF job.build
                     THEN [trie EXCEPT ![job.trie] = FillSlot(trie[job.trie], w.data, items[w.i])]
                     ELSE trie
        /\ wk' = [wk EXCEPT ![t][j].i = w.i + 1,
                            ![t][j].pc = IF w.i + 1 <= job.end THEN "query" ELSE "exit"]
  /\ UNCHANGED <<mainpc, tries, active, jobsdone, mutex, triedone, idx, lut,
                 out, warn, krashed, ub>>
  /\ UNCHANGED datavars /\ UNCHANGED lutvars

\* pthread_mutex_lock(job->mutex) (line 277)
WLock(t, j) ==
  /\ wk[t][j].pc = "exit" /\ ~krashed
  /\ CanLock(mutex)
  /\ mutex' = <<t, j>>
  /\ wk' = [wk EXCEPT ![t][j].pc = "signal"]
  /\ UNCHANGED <<mainpc, tries, active, jobsdone, triedone, idx, trie, lut,
                 out, warn, krashed, ub>>
  /\ UNCHANGED datavars /\ UNCHANGED lutvars

\* A thread count that is not updated at the exit (a mutant of ActiveOnExit).
ActiveOnExitKept(a) == a

\* *(job->active) -= 1 (line 278)
ActiveOnExit(a) == a - 1

\* A count of finished jobs that goes down (a mutant of JobsDoneOnExit).
JobsDoneOnExitDown(n) == n - 1

\* *(job->jobsdone) += 1 (line 279)
JobsDoneOnExit(n) == n + 1

\* A flag that is left as it is at the exit (a mutant of FlagOnExit).
FlagOnExitKept(f) == f

\* *(job->trieflag) = TRIE_FREE (line 280)
FlagOnExit(f) == TRIE_FREE

\* A signal that wakes nobody (a mutant of pthread_cond_signal).
pthread_cond_signalLost(pc) == pc

\* pthread_cond_signal(job->monitor) (line 281): the main thread, if it
\* waits on the condition, is woken; the signal is lost otherwise.
pthread_cond_signal(pc) == IF pc = "wait" THEN "wake" ELSE pc

\* Flag trie, update thread count and signal scheduler (lines 278-282).
WExit(t, j) ==
  /\ wk[t][j].pc = "signal" /\ ~krashed
  /\ mutex = <<t, j>>
  /\ active' = ActiveOnExit(active)
  /\ jobsdone' = JobsDoneOnExit(jobsdone)
  /\ tries' = [tries EXCEPT ![tries[t].jobs[j].trieflag].flag = FlagOnExit(@)]
  /\ mainpc' = pthread_cond_signal(mainpc)
  /\ mutex' = NoOwner
  /\ wk' = [wk EXCEPT ![t][j].pc = "done"]
  /\ UNCHANGED <<triedone, idx, trie, lut, out, warn, krashed, ub>>
  /\ UNCHANGED datavars /\ UNCHANGED lutvars

Worker ==
  \E t \in DOMAIN wk : \E j \in DOMAIN wk[t] :
    \/ WQuery(t, j)
    \/ WSearch(t, j)
    \/ WFill(t, j)
    \/ WLock(t, j)
    \/ WExit(t, j)

(***************************************************************************)
(* The specification of a run of starcode().                               *)
(***************************************************************************)
\* The records the parser makes of the lines seqs: count is 1.
Parsed(seqs) == [k \in DOMAIN seqs |-> [seq |-> seqs[k], count |-> 1]]

InitRun(inputs, thrs, taus, caps) ==
  /\ mainpc = "sort"
  /\ thrmax \in thrs
  /\ tau \in taus
  /\ hitcap \in caps
  /\ \E recs \in inputs :
       /\ input = recs
       /\ heap = InputHeap(recs)
       /\ items = InputItems(recs)
       /\ nitems = Len(recs)
  /\ ntries = 0 /\ height = 0 /\ med = -1
  /\ PlanIdle /\ LutIdle
  /\ prev = FirstRun /\ sorter = NoSort

\* Every file of 1..MaxSeqs lines over the alphabet.
RunInputs ==
  {Parsed(seqs) : seqs \in UNION {[1..n -> StringsOf(Alphabet, 1, MaxLen)] : n \in 1..MaxSeqs}}

Init == InitRun(RunInputs, {1}, 1..MaxTau, {-1})

Next ==
  \/ Sort
  \/ GetNtries
  \/ Pad
  \/ SetTau
  \/ PlanMt
  \/ CoordLock
  \/ CoordVisit
  \/ CoordWait
  \/ CoordWake
  \/ CoordUnlock
  \/ CoordReturn
  \/ Worker

Spec == Init /\ [][Next]_vars

\* Runs with two threads, hence seven tries, on a file of eight lines.
MTLines == <<<<chN, chC>>, <<chC, chC>>, <<chC>>, <<chN>>, <<chC, chN>>,
             <<chC, chC, chC>>, <<chN, chN>>, <<chC, chN, chC>>>>
MTInputs == {Parsed(MTLines)}

InitMT == InitRun(MTInputs, {2}, {1}, {-1})

SpecMT == InitMT /\ [][Next]_vars

(***************************************************************************)
(* Runs in which the hit stacks cannot grow past one slot.                 *)
(***************************************************************************)
TruncInputs ==
  {Parsed(seqs) : seqs \in UNION {[1..n -> StringsOf(Alphabet, 1, 2)] : n \in 1..MaxSeqs}}

InitTrunc == InitRun(TruncInputs, {1, 2}, {1}, {1})

SpecTrunc == InitTrunc /\ [][Next]_vars

(***************************************************************************)
(* Runs on files whose sequences may hold spaces, which the parser         *)
(* accepts.                                                                *)
(***************************************************************************)
SpaceInputs ==
  {Parsed(seqs) : seqs \in UNION {[1..n -> StringsOf({chC, SPC}, 1, 2)] : n \in 1..MaxSeqs}}

InitSpace == InitRun(SpaceInputs, {1}, {1}, {-1})

SpecSpace == InitSpace /\ [][Next]_vars

(***************************************************************************)
(* The program run twice on the same file with the same tau, the second    *)
(* time with any thread budget.                                            *)
(***************************************************************************)
\* The text of a printed line (lines 256-257): the query and the match
\* without their pads, and the distance.
OutText(ln) ==
  <<Unpad(heap[ln.q].seq),
    IF ln.m = GARBAGE THEN <<>> ELSE Unpad(heap[ln.m].seq),
    ln.d>>

\* The multiset of the lines on stdout: each text with its number of copies.
OutLines ==
  {<<txt, Cardinality({ln \in out : OutText(ln) = txt})>> :
     txt \in {OutText(ln) : ln \in out}}

\* The thread budgets of the runs.
DetThreads == {1, 2, 4, 8}

\* Files of three lines of one or two letters.
DetInputs == {Parsed(seqs) : seqs \in [1..3 -> StringsOf(Alphabet, 1, 2)]}

InitDet == InitRun(DetInputs, DetThreads, {1}, {-1})

\* starcode() is called again on the file as it was read (lines 31-58),
\* its output kept for the comparison.
Rerun ==
  /\ mainpc = "done" /\ ~krashed
  /\ ~prev.ran
  /\ prev' = [ran |-> TRUE, lines |-> OutLines]
  /\ thrmax' \in DetThreads
  /\ heap' = InputHeap(input)
  /\ items' = InputItems(input)
  /\ nitems' = Len(input)
  /\ ntries' = 0 /\ height' = 0 /\ med' = -1
  /\ tries' = <<>> /\ active' = 0 /\ jobsdone' = 0 /\ mutex' = NoOwner
  /\ triedone' = 0 /\ idx' = -1 /\ wk' = <<>> /\ trie' = <<>> /\ lut' = <<>>
  /\ out' = {} /\ warn' = {} /\ krashed' = FALSE /\ ub' = FALSE
  /\ mainpc' = "sort"
  /\ UNCHANGED <<input, sorter, tau, hitcap>>
  /\ UNCHANGED lutvars

NextDet == Next \/ Rerun

SpecDet == InitDet /\ [][NextDet]_vars

(***************************************************************************)
(* plan_mt on its own: any odd ntries, and a stack of at least ntries      *)
(* sorted, padded, distinct records.                                       *)
(***************************************************************************)
\* The k-th string of length 4 over {A, C}, in increasing order.
BinSeq(k) == [p \in 1..4 |-> IF (k \div (2 ^ (4 - p))) % 2 = 1 THEN chC ELSE chA]

PlanStack(n) == [k \in 1..n |-> [seq |-> BinSeq(k - 1), count |-> 1]]

InitPlan ==
  /\ mainpc = "plan"
  /\ thrmax = 1
  /\ tau \in 0..MaxTau
  /\ hitcap = -1
  /\ ntries \in {n \in 1..MaxPlanTries : n % 2 = 1}
  /\ \E extra \in 0..MaxPlanExtra :
       /\ nitems = min(ntries + extra, 16)
       /\ input = PlanStack(nitems)
       /\ heap = InputHeap(input)
       /\ items = InputItems(input)
  /\ height = 4 /\ med = 4
  /\ PlanIdle /\ LutIdle
  /\ prev = FirstRun /\ sorter = NoSort

NextPlan == PlanMt

SpecPlan == InitPlan /\ [][NextPlan]_vars

(***************************************************************************)
(* plan_mt and run_plan under fair scheduling, for any odd ntries and any  *)
(* thrmax: the main thread and every started do_query thread keep taking   *)
(* steps, and a thread that asks for the mutex again and again gets it.    *)
(***************************************************************************)
MaxLiveTries == 3
MaxLiveThr == 2

InitLive ==
  /\ mainpc = "plan"
  /\ thrmax \in 1..MaxLiveThr
  /\ tau = 0
  /\ hitcap = -1
  /\ ntries \in {n \in 1..MaxLiveTries : n % 2 = 1}
  /\ \E extra \in 0..1 :
       /\ nitems = ntries + extra
       /\ input = PlanStack(nitems)
       /\ heap = InputHeap(input)
       /\ items = InputItems(input)
  /\ height = 4 /\ med = 4
  /\ PlanIdle /\ LutIdle
  /\ prev = FirstRun /\ sorter = NoSort

NextLive ==
  \/ PlanMt
  \/ CoordLock
  \/ CoordVisit
  \/ CoordWait
  \/ CoordWake
  \/ CoordUnlock
  \/ CoordReturn
  \/ Worker

\* The steps of the main thread: it is one sequential thread.
MainStep ==
  \/ PlanMt
  \/ CoordLock
  \/ CoordVisit
  \/ CoordWait
  \/ CoordWake
  \/ CoordUnlock
  \/ CoordReturn

\* The steps, outside pthread_mutex_lock, of the do_query thread of trie t:
\* a trie is busy with one thread at a time (lines 113, 126), so that at
\* most one job of the trie has a step to take.
WRun(t) ==
  /\ t \in DOMAIN wk
  /\ \E j \in DOMAIN wk[t] :
       WQuery(t, j) \/ WSearch(t, j) \/ WFill(t, j) \/ WExit(t, j)

\* pthread_mutex_lock(job->mutex) of the do_query thread of trie t.
WAcquire(t) ==
  /\ t \in DOMAIN wk
  /\ \E j \in DOMAIN wk[t] : WLock(t, j)

\* The main thread spins on the mutex while threads are available, so the
\* lock is free again and again rather than for ever: the worker that asks
\* for it is served under strong fairness.
FairLive ==
  /\ WF_vars(MainStep)
  /\ \A t \in 0..(MaxLiveTries - 1) : WF_vars(WRun(t)) /\ SF_vars(WAcquire(t))

SpecLive == InitLive /\ [][NextLive]_vars /\ FairLive

(***************************************************************************)
(* starcode() from the return of seqsort to the return of plan_mt, for any *)
(* thread budget and any number of unique sequences.                       *)
(***************************************************************************)
InitFront ==
  /\ mainpc = "ntries"
  /\ thrmax \in 1..MaxFrontThr
  /\ tau \in 0..MaxTau
  /\ hitcap = -1
  /\ \E n \in 1..MaxFrontEls :
       /\ nitems = min(n, 16)
       /\ input = PlanStack(nitems)
       /\ heap = InputHeap(input)
       /\ items = InputItems(input)
  /\ ntries = 0 /\ height = 0 /\ med = -1
  /\ PlanIdle /\ LutIdle
  /\ prev = FirstRun /\ sorter = NoSort

NextFront == GetNtries \/ Pad \/ SetTau \/ PlanMt

SpecFront == InitFront /\ [][NextFront]_vars

(***************************************************************************)
(* The choice of tau after pad_useq has returned, on stacks of long        *)
(* sequences: two sorted records of the same length, which is then the     *)
(* height and the median, with tau given or left to starcode().            *)
(***************************************************************************)
\* The sequence of len letters A, its last letter replaced by c.
LongSeq(len, c) == [k \in 1..len |-> IF k = len THEN c ELSE chA]

LongStack(len) ==
  <<[seq |-> LongSeq(len, chA), count |-> 1], [seq |-> LongSeq(len, chC), count |-> 1]>>

InitTau ==
  /\ mainpc = "tau"
  /\ thrmax = 1
  /\ tau \in (-1)..MaxTau
  /\ hitcap = -1
  /\ \E len \in 1..MaxAutoLen :
       /\ input = LongStack(len)
       /\ heap = InputHeap(input)
       /\ items = InputItems(input)
       /\ height = len
       /\ med = len
  /\ nitems = 2
  /\ ntries = 1
  /\ PlanIdle /\ LutIdle
  /\ prev = FirstRun /\ sorter = NoSort

NextTau == SetTau

SpecTau == InitTau /\ [][NextTau]_vars

(***************************************************************************)
(* new_lookup on its own: local_lut = new_lookup(medianlen, height, tau)   *)
(* of plan_mt, line 369, for median lengths long enough to reach           *)
(* MAX_K_FOR_LOOKUP.                                                       *)
(***************************************************************************)
MaxKlenLen == 48
MaxKlenTau == 2

InitKlen ==
  /\ mainpc = "newlut"
  /\ thrmax = 1
  /\ med \in 1..MaxKlenLen
  /\ height \in {med, med + 1}
  /\ tau \in 0..MaxKlenTau
  /\ fl = <<>> /\ fins = {} /\ fq = <<>> /\ fres = 0
  /\ input = <<>> /\ heap = <<>> /\ items = <<>> /\ nitems = 0 /\ ntries = 0
  /\ hitcap = -1
  /\ PlanIdle
  /\ prev = FirstRun /\ sorter = NoSort

\* new_lookup(medianlen, height, tau)
NewLookup ==
  /\ mainpc = "newlut"
  /\ fl' = new_lookup(med, height, tau)
  /\ mainpc' = "lutmade"
  /\ UNCHANGED <<input, prev, sorter, thrmax, tau, heap, items, nitems, ntries,
                 height, med, hitcap, fins, fq, fres>>
  /\ UNCHANGED planvars

NextKlen == NewLookup

SpecKlen == InitKlen /\ [][NextKlen]_vars

(***************************************************************************)
(* The lookup filter on its own: a filter made by new_lookup, sequences    *)
(* inserted in it, and a search.                                           *)
(***************************************************************************)
\* The padded sequences of height h over the alphabet.
PaddedSeqs(h) == {PadSeq(s, h) : s \in StringsOf(Alphabet, 1, h)}

InitLut ==
  /\ mainpc = "lut"
  /\ thrmax = 1
  /\ height \in 1..MaxLutLen
  /\ med \in 1..height
  /\ tau \in 0..MaxTau
  /\ fl = new_lookup(med, height, tau)
  /\ fins = {} /\ fq = <<>> /\ fres = 0
  /\ input = <<>> /\ heap = <<>> /\ items = <<>> /\ nitems = 0 /\ ntries = 0
  /\ hitcap = -1
  /\ PlanIdle
  /\ prev = FirstRun /\ sorter = NoSort

\* lut_insert(lut, a)
LutInsert ==
  /\ mainpc = "lut"
  /\ Cardinality(fins) < MaxLutIns
  /\ \E a \in PaddedSeqs(height) :
       LET r == lut_insert(fl, a)
       IN /\ fl' = r.lut
          /\ fres' = r.ret
          /\ fins' = fins \cup {a}
  /\ fq' = <<>>
  /\ UNCHANGED <<input, prev, sorter, mainpc, thrmax, tau, heap, items, nitems, ntries,
                 height, med, hitcap>>
  /\ UNCHANGED planvars

\* lut_search(lut, b)
LutSearch ==
  /\ mainpc = "lut"
  /\ \E b \in PaddedSeqs(height) :
       /\ fq' = b
       /\ fres' = lut_search(fl, b)
  /\ UNCHANGED <<input, prev, sorter, mainpc, thrmax, tau, heap, items, nitems, ntries,
                 height, med, hitcap, fl, fins>>
  /\ UNCHANGED planvars

NextLut == LutInsert \/ LutSearch

SpecLut == InitLut /\ [][NextLut]_vars

(***************************************************************************)
(* The lookup filter on its own, for the values of tau that make k-mers of *)
(* no length: any 1 <= median <= height.                                   *)
(***************************************************************************)
MaxReadTau == 2

InitReads ==
  /\ mainpc = "lut"
  /\ thrmax = 1
  /\ height \in 1..MaxLutLen
  /\ med \in 1..height
  /\ tau \in 0..MaxReadTau
  /\ fl = new_lookup(med, height, tau)
  /\ fins = {} /\ fq = <<>> /\ fres = 0
  /\ input = <<>> /\ heap = <<>> /\ items = <<>> /\ nitems = 0 /\ ntries = 0
  /\ hitcap = -1
  /\ PlanIdle
  /\ prev = FirstRun /\ sorter = NoSort

SpecReads == InitReads /\ [][NextLut]_vars

(***************************************************************************)
(* Notions the claims are stated with.                                     *)
(***************************************************************************)
PlanMade == mainpc \in {"run", "locked", "check", "wait", "wake", "done"}
Returned == mainpc = "done"

\* The unique sequences: the records left on the stack by the sort.
Live == {items[k] : k \in 0..(nitems - 1)}

\* The lines printed for the pair of records a and b.
LinesFor(a, b) == {ln \in out : {ln.q, ln.m} = {a, b}}

Started(t, j)  == wk[t][j].pc # "idle"
Finished(t, j) == wk[t][j].pc = "done"
Executing(t, j) == Started(t, j) /\ ~Finished(t, j)

(***************************************************************************)
(* C1: after the whole plan has run, every unordered pair of distinct      *)
(* unique sequences at edit distance d with 1 <= d <= tau has produced     *)
(* exactly one output line, and no line is produced for any other pair.    *)
(***************************************************************************)
C1_EachPairOnce ==
  Returned =>
    /\ \A ln \in out : ln.q \in Live /\ ln.m \in Live /\ ln.q # ln.m
    /\ \A a, b \in Live :
         a < b =>
           LET d == EditDistance(heap[a].seq, heap[b].seq)
           IN IF 1 <= d /\ d <= tau
                THEN Cardinality(LinesFor(a, b)) = 1
                ELSE LinesFor(a, b) = {}

(***************************************************************************)
(* C2: in the plan built by plan_mt for an odd number of tries, for every  *)
(* pair of distinct blocks i and j exactly one of the two jobs (trie built *)
(* from block i, query range block j) and (trie built from block j, query  *)
(* range block i) exists.                                                  *)
(***************************************************************************)
\* The range of the job is block b.
RangeIs(job, b) ==
  /\ job.start = Bounds(nitems, ntries, b)
  /\ job.end = Bounds(nitems, ntries, b + 1) - 1

\* A trie built from block i has a query job on block b.
QueryJobExists(i, b) ==
  \E t \in DOMAIN tries :
    /\ \E k \in DOMAIN tries[t].jobs :
         tries[t].jobs[k].build /\ RangeIs(tries[t].jobs[k], i)
    /\ \E k \in DOMAIN tries[t].jobs :
         ~tries[t].jobs[k].build /\ RangeIs(tries[t].jobs[k], b)

C2_OneJobPerBlockPair ==
  PlanMade =>
    \A i, j \in 0..(ntries - 1) :
      i # j => (QueryJobExists(i, j) # QueryJobExists(j, i))

\* A plan of five tries whose blocks have different sizes.
C2_Witness ==
  /\ PlanMade
  /\ ntries = 5
  /\ nitems % ntries # 0
  /\ QueryJobExists(3, 0) /\ ~QueryJobExists(0, 3)

(***************************************************************************)
(* C3: the jobs of one trie are started in increasing job index, and the   *)
(* build job (index 0) of a trie has finished, its worker having set the   *)
(* flag back to FREE, before any other job of the trie starts.             *)
(***************************************************************************)
C3_BuildJobFirst ==
  PlanMade =>
    \A t \in DOMAIN wk : \A j \in DOMAIN wk[t] :
      /\ tries[t].jobs[j].build = (j = 0)
      /\ Started(t, j) =>
           /\ \A k \in 0..(j - 1) : Started(t, k)
           /\ j > 0 => Finished(t, 0)

\* A query job of one trie runs while the build job of another trie is
\* still running.
C3_Witness ==
  /\ PlanMade
  /\ \E t, u \in DOMAIN wk :
       /\ t # u
       /\ wk[t][1].pc = "search"
       /\ wk[u][0].pc = "search"

(***************************************************************************)
(* C4: at most one do_query worker is executing a job of a given trie,     *)
(* from its dispatch to its exit critical section.                         *)
(***************************************************************************)
C4_OneWorkerPerTrie ==
  PlanMade =>
    \A t \in DOMAIN wk : Cardinality({j \in DOMAIN wk[t] : Executing(t, j)}) <= 1

\* Two workers are in their loops at the same time, on different tries.
C4_Witness ==
  /\ PlanMade
  /\ \E t, u \in DOMAIN wk : \E j \in DOMAIN wk[t], k \in DOMAIN wk[u] :
       /\ t # u
       /\ wk[t][j].pc = "fill"
       /\ wk[u][k].pc = "query"
       /\ j > 0 /\ k > 0

(***************************************************************************)
(* C5: plan.active, the number of dispatched workers that have not yet     *)
(* executed their exit critical section, is between 0 and thrmax; a        *)
(* dispatch at active = thrmax would take it to thrmax + 1.                *)
(***************************************************************************)
NumExecuting ==
  Cardinality({tj \in UNION {{<<t, j>> : j \in DOMAIN wk[t]} : t \in DOMAIN wk} :
                 Executing(tj[1], tj[2])})

C5_ActiveBounded ==
  PlanMade =>
    /\ 0 <= active /\ active <= thrmax
    /\ active = NumExecuting

\* The coordinator waits on the monitor with both threads taken.
C5_Witness ==
  /\ mainpc = "wait"
  /\ thrmax = 2
  /\ active = thrmax

(***************************************************************************)
(* C6: plan.jobsdone never decreases, and when run_plan returns it equals  *)
(* N*(N+1)/2: every job of every trie has completed.                       *)
(***************************************************************************)
C6_JobsDone ==
  /\ [][jobsdone' >= jobsdone]_vars
  /\ [](Returned =>
          /\ jobsdone = (ntries * (ntries + 1)) \div 2
          /\ \A t \in DOMAIN wk : \A j \in DOMAIN wk[t] : Finished(t, j))

\* run_plan has returned from a plan of seven tries and 28 jobs.
C6_Witness ==
  /\ Returned
  /\ ntries = 7
  /\ jobsdone = 28

(***************************************************************************)
(* C7: after seqsort the surviving records are in strictly increasing      *)
(* order of (length, bytes), no two survivors have the same seq, and the   *)
(* counts of the survivors add up to the counts of all the input records.  *)
(***************************************************************************)
RECURSIVE SumCount(_, _)
SumCount(hp, ids) ==
  IF ids = {} THEN 0
  ELSE LET id == CHOOSE x \in ids : TRUE
       IN hp[id].count + SumCount(hp, ids \ {id})

\* (len, seq) of a is strictly below (len, seq) of b
StrictlyBelow(a, b) ==
  \/ Len(a) < Len(b)
  \/ Len(a) = Len(b) /\ \E k \in 1..Len(a) :
        /\ a[k] < b[k]
        /\ \A m \in 1..(k - 1) : a[m] = b[m]

Sorted == mainpc = "ntries"

C7_SortedDistinctSum ==
  Sorted =>
    /\ \A k \in 0..(nitems - 1) : items[k] # NULL /\ ~heap[items[k]].freed
    /\ \A i, j \in 0..(nitems - 1) :
         i < j => /\ StrictlyBelow(heap[items[i]].seq, heap[items[j]].seq)
                  /\ heap[items[i]].seq # heap[items[j]].seq
    /\ SumCount(heap, {items[k] : k \in 0..(nitems - 1)})
         = SumCount(InputHeap(input), DOMAIN input)

\* A sort that had to reorder records of different lengths and to coalesce
\* two pairs of duplicates, with helper threads.
C7_Witness ==
  /\ Sorted
  /\ thrmax >= 2
  /\ Len(input) = nitems + 2
  /\ nitems >= 2
  /\ Len(input[1].seq) > Len(input[Len(input)].seq)

(***************************************************************************)
(* C8: filter soundness.  Once lut_insert(L, a) has been executed, for     *)
(* every padded b of the same height with edit_distance(a, b) <= tau,      *)
(* lut_search(L, b) returns 1.                                             *)
(***************************************************************************)
C8_FilterSound ==
  fq # <<>> =>
    \A a \in fins : Lev(a, fq, Len(a), Len(fq)) <= tau => fres = 1

(***************************************************************************)
(* C9: in a build job the trie slot of a record q holds NULL from its      *)
(* insertion until its search and the printing of its pairs are over, and  *)
(* holds q afterwards, searched or not; q is never a hit of its own        *)
(* search, and the earlier records of the block are in filled slots.       *)
(***************************************************************************)
C9_SlotFilledAfterSearch ==
  PlanMade =>
    \A t \in DOMAIN wk :
      LET w   == wk[t][0]
          job == tries[t].jobs[0]
      IN (job.build /\ Started(t, 0)) =>
           /\ \A k \in job.start..job.end :
                LET s == heap[items[k]].seq
                IN IF k < w.i
                     THEN s \in DOMAIN trie[t] /\ trie[t][s] = items[k]
                   ELSE IF k = w.i /\ w.pc \in {"search", "fill"}
                     THEN s \in DOMAIN trie[t] /\ trie[t][s] = NULL
                   ELSE s \notin DOMAIN trie[t]
           /\ (w.pc = "fill" /\ w.dosearch) =>
                \A d \in DOMAIN w.hits : \A x \in DOMAIN w.hits[d].items :
                  /\ w.hits[d].items[x] # items[w.i]
                  /\ \E k \in job.start..(w.i - 1) : w.hits[d].items[x] = items[k]
           /\ \A ln \in out : ln.q # ln.m

\* A build job has searched its second record, found the first one and
\* printed the pair, and the slot of the second record is still NULL.
C9_Witness ==
  /\ PlanMade
  /\ \E t \in DOMAIN wk :
       LET w == wk[t][0]
       IN /\ w.pc = "fill"
          /\ w.dosearch
          /\ w.i > tries[t].jobs[0].start
          /\ trie[t][heap[items[w.i]].seq] = NULL
          /\ \E ln \in out : ln.t = t /\ ln.j = 0 /\ ln.q = items[w.i]
                             /\ ln.m = items[w.i - 1]

(***************************************************************************)
(* C10: when the search of a query leaves a hit stack with nitems >        *)
(* nslots, do_query prints a warning and prints no pair line at all for    *)
(* that query.                                                             *)
(***************************************************************************)
C10_NoPairsWhenTruncated ==
  PlanMade =>
    \A t \in DOMAIN wk : \A j \in DOMAIN wk[t] :
      LET w == wk[t][j]
      IN (w.pc = "fill" /\ w.dosearch /\ Truncated(w.hits)) =>
           /\ [t |-> t, j |-> j, q |-> items[w.i]] \in warn
           /\ ~\E ln \in out : ln.t = t /\ ln.j = j /\ ln.q = items[w.i]

(***************************************************************************)
(* C11: parallel determinism.  Two runs of starcode on the same input with *)
(* the same tau and thread budgets among 1, 2, 4 and 8 print the same      *)
(* multiset of lines, a line being the text (query, match, distance).      *)
(***************************************************************************)
C11_SameLines ==
  (Returned /\ prev.ran) => OutLines = prev.lines

(***************************************************************************)
(* C12: after pad_useq every record's seq has length maxlen, the largest   *)
(* length of the stack and the value returned; a record of length len has  *)
(* spaces at the positions [0, maxlen-len) and its own characters, in      *)
(* order, at [maxlen-len, maxlen); a record of length maxlen is unchanged. *)
(***************************************************************************)
\* pad_useq has returned.
Padded == mainpc \notin {"sort", "ntries", "pad", "lut"}

\* The sequence of the record as it was read.
Original(id) == input[id].seq

C12_PaddedLeft ==
  Padded =>
    /\ \A id \in Live : Len(Original(id)) <= height
    /\ \E id \in Live : Len(Original(id)) = height
    /\ \A id \in Live :
         LET len == Len(Original(id))
             seq == heap[id].seq
         IN /\ Len(seq) = height
            /\ \A k \in 1..(height - len) : seq[k] = SPC
            /\ \A k \in 1..len : seq[height - len + k] = Original(id)[k]
            /\ len = height => seq = Original(id)

\* A stack with a record that got two spaces and one that got none.
C12_Witness ==
  /\ mainpc = "plan"
  /\ \E a, b \in Live :
       /\ Len(Original(a)) = height - 2
       /\ heap[a].seq[1] = SPC /\ heap[a].seq[2] = SPC
       /\ Len(Original(b)) = height
       /\ heap[b].seq = Original(b)

(***************************************************************************)
(* C13: for every thread budget T >= 1 and every number of unique          *)
(* sequences, the number of tries handed to plan_mt is odd: it is          *)
(* 3*T + (1 if T is even, else 0), or 1, with thrmax reset to 1, when      *)
(* there are fewer unique sequences than that value.                       *)
(***************************************************************************)
C13_OddTries ==
  /\ [][mainpc = "ntries" =>
          LET v == 3 * thrmax + (IF thrmax % 2 = 0 THEN 1 ELSE 0)
          IN IF nitems < v THEN ntries' = 1 /\ thrmax' = 1
                           ELSE ntries' = v /\ thrmax' = thrmax]_vars
  /\ [](mainpc \in {"pad", "tau", "plan", "run"} => ntries % 2 = 1)
  /\ [](mainpc = "run" => DOMAIN tries = 0..(ntries - 1))

\* plan_mt has made a plan of thirteen tries for four threads.
C13_Witness ==
  /\ mainpc = "run"
  /\ thrmax = 4
  /\ ntries = 13
  /\ DOMAIN tries = 0..12

(***************************************************************************)
(* C14: for M unique sequences and N tries, the block boundaries of        *)
(* plan_mt are bounds[i] = floor(i*M/N) + min(i, M mod N) for i in 0..N,   *)
(* and they partition 0..M-1 in N contiguous ranges: bounds[0] = 0,        *)
(* bounds[N] = M, bounds is non-decreasing and any two block sizes differ  *)
(* by at most 1.                                                           *)
(***************************************************************************)
\* bounds[i] as the plan holds it: the build job of trie i starts at
\* bounds[i] and ends at bounds[i+1] - 1.
PlanBounds(i) ==
  IF i < ntries THEN tries[i].jobs[0].start
                ELSE tries[ntries - 1].jobs[0].end + 1

\* bounds[0] = 0, bounds[N] = M, non-decreasing, sizes within 1.
BoundsPartition ==
  /\ PlanBounds(0) = 0
  /\ PlanBounds(ntries) = nitems
  /\ \A i \in 0..(ntries - 1) : PlanBounds(i) <= PlanBounds(i + 1)
  /\ \A i, j \in 0..(ntries - 1) :
       (PlanBounds(i + 1) - PlanBounds(i)) - (PlanBounds(j + 1) - PlanBounds(j)) <= 1

\* The claim as it is stated.
C14_BoundsFloor ==
  PlanMade =>
    /\ \A i \in 0..ntries :
         PlanBounds(i) = ((i * nitems) \div ntries) + min(i, nitems % ntries)
    /\ BoundsPartition

\* The claim with the formula of the bounds amended:
\* bounds[i] = i * floor(M/N) + min(i, M mod N).
C14_BoundsPartition ==
  PlanMade =>
    /\ \A i \in 0..ntries :
         PlanBounds(i) = i * (nitems \div ntries) + min(i, nitems % ntries)
    /\ BoundsPartition

\* Three tries for five sequences: the bounds are 0, 2, 4, 5.
C14_Witness ==
  /\ PlanMade
  /\ ntries = 3 /\ nitems = 5
  /\ PlanBounds(1) = 2 /\ PlanBounds(2) = 4 /\ PlanBounds(3) = 5

(***************************************************************************)
(* C15: for every non-empty stack, the median reported by pad_useq is the  *)
(* smallest length L, counting from L = 0, such that the number of records *)
(* of unpadded length <= L is at least nitems/2 (integer division), and it *)
(* never exceeds maxlen.                                                   *)
(***************************************************************************)
\* The number of records of unpadded length at most L.
UpToLen(L) == Cardinality({id \in Live : Len(Original(id)) <= L})

\* The smallest length of lo..height that at least nitems/2 records do not
\* exceed.
SmallestFrom(lo) ==
  LET ok == {L \in lo..height : UpToLen(L) >= nitems \div 2}
  IN CHOOSE L \in ok : \A x \in ok : L <= x

CoordAccessing == mainpc \in {"locked", "check"}

\* The worker is in lines 278-280.
WorkerAccessing(t, j) == wk[t][j].pc = "signal"

\* The threads that are at an access of the shared variables.
Accessing ==
  (IF CoordAccessing THEN {MainThread} ELSE {})
    \cup {tj \in UNION {{<<t, j>> : j \in DOMAIN wk[t]} : t \in DOMAIN wk} :
            WorkerAccessing(tj[1], tj[2])}

C16_GeneralLock ==
  /\ [](PlanMade =>
          /\ \A th \in Accessing : mutex = th
          /\ Cardinality(Accessing) <= 1)
  /\ [][(PlanMade /\ (active' # active \/ jobsdone' # jobsdone
                       \/ \E t \in DOMAIN tries : tries'[t].flag # tries[t].flag))
          => (mutex # NoOwner /\ mutex \in Accessing)]_vars

\* A worker is in its exit critical section while the coordinator, woken
\* by the exit of another worker, waits for the lock.
C16_Witness ==
  /\ mainpc = "wake"
  /\ \E t, u \in DOMAIN wk : \E j \in DOMAIN wk[t], k \in DOMAIN wk[u] :
       /\ t # u
       /\ WorkerAccessing(t, j) /\ mutex = <<t, j>>
       /\ Finished(u, k)

(***************************************************************************)
(* C17: after seqsort and pad_useq, for every accepted input (a sequence   *)
(* may hold any valid byte, space included), the padded records are        *)
(* pairwise distinct, so for two records of a block the common prefix      *)
(* computed for trail and for start is shorter than the padded length and  *)
(* the prefix loops stop before the terminator.                            *)
(***************************************************************************)
\* Records k and l of the stack are in the same block of the plan.
SameBlock(k, l) ==
  \E b \in 0..(ntries - 1) :
    /\ Bounds(nitems, ntries, b) <= k /\ k < Bounds(nitems, ntries, b + 1)
    /\ Bounds(nitems, ntries, b) <= l /\ l < Bounds(nitems, ntries, b + 1)

C17_PaddedDistinct ==
  Padded =>
    /\ \A a, b \in Live : a # b => heap[a].seq # heap[b].seq
    /\ \A k, l \in 0..(nitems - 1) :
         (k # l /\ SameBlock(k, l)) =>
           LET cp == CommonPrefix(heap[items[k]].seq, heap[items[l]].seq, 0)
           IN cp.len < height /\ ~cp.oob
    /\ ~ub

(***************************************************************************)
(* C18: when the caller passes tau < 0, starcode sets tau to 8 if the      *)
(* median is above 160 and to 2 + floor(median/30) otherwise, so that a    *)
(* median of 30 gives 3 and the automatic tau is always in 2..8; a tau     *)
(* >= 0 of the caller is left unchanged.                                   *)
(***************************************************************************)
C18_AutoTau ==
  [][mainpc = "tau" =>
       IF tau < 0
         THEN /\ tau' = IF med > 160 THEN 8 ELSE 2 + (med \div 30)
              /\ 2 <= tau' /\ tau' <= 8
              /\ med = 30 => tau' = 3
         ELSE tau' = tau]_vars

\* The median is 161 and tau was set to 8.
C18_Witness ==
  /\ mainpc = "plan"
  /\ med = 161
  /\ tau = 8

(***************************************************************************)
(* C19: in the plan built by plan_mt every trie i has exactly (N+1)/2      *)
(* jobs; job j of trie i has the query range of block (i+j) mod N; job 0   *)
(* is the only job with build set and its range is block i; all the jobs   *)
(* of trie i reference the same trie, node arena and lookup filter, and no *)
(* job of another trie references them.                                    *)
(***************************************************************************)
\* The trie, the node arena and the filter that job j of trie i references.
JobRefs(i, j) ==
  <<tries[i].jobs[j].trie, tries[i].jobs[j].node_pos, tries[i].jobs[j].lut>>

C19_PlanShape ==
  PlanMade =>
    /\ DOMAIN tries = 0..(ntries - 1)
    /\ \A i \in DOMAIN tries :
         /\ tries[i].njobs = (ntries + 1) \div 2
         /\ DOMAIN tries[i].jobs = 0..(tries[i].njobs - 1)
         /\ RangeIs(tries[i].jobs[0], i)
         /\ \A j \in DOMAIN tries[i].jobs :
              /\ RangeIs(tries[i].jobs[j], (i + j) % ntries)
              /\ tries[i].jobs[j].build = (j = 0)
              /\ JobRefs(i, j) = JobRefs(i, 0)
         /\ \A k \in DOMAIN tries : \A j \in DOMAIN tries[k].jobs :
              k # i =>
                /\ tries[k].jobs[j].trie # tries[i].jobs[0].trie
                /\ tries[k].jobs[j].node_pos # tries[i].jobs[0].node_pos
                /\ tries[k].jobs[j].lut # tries[i].jobs[0].lut

\* Seven tries of four jobs: the last job of trie 5 wraps around to block 1.
C19_Witness ==
  /\ PlanMade
  /\ ntries = 7
  /\ nitems % ntries = 3
  /\ tries[5].njobs = 4
  /\ RangeIs(tries[5].jobs[3], 1)
  /\ ~tries[5].jobs[3].build

(***************************************************************************)
(* C20: seqsort returns numels minus the number of coalesced duplicates;   *)
(* on return the first (return value) slots of the caller's array hold the *)
(* distinct surviving records in sorted order, all non-NULL, and every     *)
(* slot after them up to numels is NULL, for any numels >= 1, any thrmax   *)
(* >= 1 and any position of the duplicates.                                *)
(***************************************************************************)
\* The records destroyed by the merges: one per coalesced duplicate.
Coalesced == {id \in DOMAIN heap : heap[id].freed}

\* The sequences of the input array.
InputSeqs == {input[k].seq : k \in DOMAIN input}

C20_ReturnAndNullTail ==
  Sorted =>
    /\ nitems = Len(input) - Cardinality(Coalesced)
    /\ nitems = Cardinality(InputSeqs)
    /\ \A k \in 0..(nitems - 1) : items[k] # NULL
    /\ {items[k] : k \in 0..(nitems - 1)} = DOMAIN heap \ Coalesced
    /\ {heap[items[k]].seq : k \in 0..(nitems - 1)} = InputSeqs
    /\ \A k \in 0..(nitems - 2) :
         StrictlyBelow(heap[items[k]].seq, heap[items[k + 1]].seq)
    /\ \A k \in nitems..(Len(input) - 1) : items[k] = NULL

\* Four records sorted by helper threads, the duplicates lying in different
\* halves and in the same half, so that two slots of the tail are NULL.
C20_Witness ==
  /\ Sorted
  /\ thrmax = 4
  /\ Len(input) = 4
  /\ input[1].seq = input[3].seq
  /\ input[3].seq = input[4].seq
  /\ input[2].seq # input[1].seq
  /\ nitems = 2
  /\ items[2] = NULL /\ items[3] = NULL

(***************************************************************************)
(* C21: new_lookup builds tau+1 k-mers whose lengths are                   *)
(* min(MAX_K, floor(slen/(tau+1))), slen being the median length, the      *)
(* remainder slen mod (tau+1) being distributed toward the earlier         *)
(* indices: no k-mer is shorter than that value.                           *)
(***************************************************************************)
LutMade == mainpc = "lutmade"

\* min(MAX_K, floor(slen/(tau+1)))
TargetK == min(MAX_K_FOR_LOOKUP, med \div (tau + 1))

RECURSIVE SumKlen(_, _)
SumKlen(l, i) == IF i < 0 THEN 0 ELSE l.klen[i] + SumKlen(l, i - 1)

\* As stated: every k-mer has at least the target size, the longer ones
\* come first.
C21_KlenAtLeastTarget ==
  LutMade =>
    /\ fl.kmers = tau + 1
    /\ DOMAIN fl.klen = 0..tau
    /\ \A i \in 0..tau : fl.klen[i] >= TargetK /\ fl.klen[i] <= TargetK + 1
    /\ \A i, j \in 0..tau : i < j => fl.klen[i] >= fl.klen[j]

\* As coded: every k-mer has the target size or one less, the shorter ones
\* come first, there are tau - slen mod (tau+1) of them, and none when the
\* target exceeds MAX_K; below MAX_K the sizes add up to slen - tau.
C21_KlenAtMostTarget ==
  LutMade =>
    /\ fl.kmers = tau + 1
    /\ DOMAIN fl.klen = 0..tau
    /\ \A i \in 0..tau : fl.klen[i] \in {TargetK - 1, TargetK}
    /\ \A i, j \in 0..tau : i < j => fl.klen[i] <= fl.klen[j]
    /\ med \div (tau + 1) > MAX_K_FOR_LOOKUP =>
         \A i \in 0..tau : fl.klen[i] = MAX_K_FOR_LOOKUP
    /\ med \div (tau + 1) <= MAX_K_FOR_LOOKUP =>
         /\ SumKlen(fl, tau) = med - tau
         /\ Cardinality({i \in 0..tau : fl.klen[i] = TargetK - 1})
              = tau - (med % (tau + 1))

\* Median 4 and tau 2: target size 1, remainder 1, and the sizes are 0, 1, 1.
C21_Witness ==
  /\ LutMade
  /\ med = 4 /\ tau = 2
  /\ fl.klen[0] = 0 /\ fl.klen[1] = 1 /\ fl.klen[2] = 1

(***************************************************************************)
(* C22: under fair scheduling in which every dispatched worker reaches its *)
(* exit critical section, run_plan terminates for every odd N and every    *)
(* thrmax: every trie reaches TRIE_DONE, and the coordinator never waits   *)
(* on the condition variable forever.                                      *)
(***************************************************************************)
AllTriesDone ==
  /\ DOMAIN tries = 0..(ntries - 1)
  /\ \A t \in DOMAIN tries : tries[t].flag = TRIE_DONE

C22_RunPlanTerminates ==
  /\ <>(Returned /\ AllTriesDone)
  /\ [](Returned => AllTriesDone)
  /\ (mainpc = "wait") ~> (mainpc = "wake")
  /\ (mainpc = "wake") ~> (mainpc = "check")

\* The coordinator waited with both threads busy on three tries and was
\* signalled by a worker; the other worker is at its exit.
C22_Witness ==
  /\ mainpc = "wake"
  /\ ntries = 3 /\ thrmax = 2
  /\ active = 1
  /\ \E t \in DOMAIN wk : \E j \in DOMAIN wk[t] : wk[t][j].pc = "exit"

(***************************************************************************)
(* C23: whenever the general lock is free, plan.active equals the number   *)
(* of tries whose flag is TRIE_BUSY; a flag moves only from FREE to BUSY   *)
(* (coordinator, at a dispatch), from BUSY to FREE (a worker of the trie,  *)
(* at its exit) and from FREE to DONE (coordinator, only when currentjob   *)
(* equals njobs), and DONE is never left.                                  *)
(***************************************************************************)
BusyTries == {t \in DOMAIN tries : tries[t].flag = TRIE_BUSY}

ActiveIsBusy == mutex = NoOwner => active = Cardinality(BusyTries)

\* The step of the flag of trie t is one of the three moves, or none.
FlagMove(t) ==
  LET a == tries[t].flag
      b == tries'[t].flag
      byMain == mainpc = "locked" /\ idx = t /\ mutex = MainThread
  IN \/ a = b
     \/ /\ a = TRIE_FREE /\ b = TRIE_BUSY
        /\ byMain
        /\ tries[t].currentjob < tries[t].njobs
        /\ tries'[t].currentjob = tries[t].currentjob + 1
     \/ /\ a = TRIE_BUSY /\ b = TRIE_FREE
        /\ \E j \in DOMAIN wk[t] :
             /\ mutex = <<t, j>>
             /\ wk[t][j].pc = "signal" /\ wk'[t][j].pc = "done"
     \/ /\ a = TRIE_FREE /\ b = TRIE_DONE
        /\ byMain
        /\ tries[t].currentjob = tries[t].njobs

C23_ActiveAndFlags ==
  /\ []ActiveIsBusy
  /\ [][(PlanMade /\ PlanMade') => \A t \in DOMAIN tries : FlagMove(t)]_vars

\* The lock is free, the coordinator waits with both threads busy, a trie
\* is done and another one is free again with jobs left.
C23_Witness ==
  /\ mutex = NoOwner
  /\ mainpc = "wait"
  /\ active = 2 /\ Cardinality(BusyTries) = 2
  /\ \E t \in DOMAIN tries : tries[t].flag = TRIE_DONE
  /\ \E t \in DOMAIN tries :
       /\ tries[t].flag = TRIE_FREE
       /\ tries[t].currentjob \in 1..(tries[t].njobs - 1)

(***************************************************************************)
(* C24: for every thrmax >= 1 and every number M >= 1 of unique sequences, *)
(* every block of the plan built by starcode is non-empty (bounds[i] <     *)
(* bounds[i+1] for all i), so count_trie_nodes is never called with        *)
(* start == end and every job has start <= end.                            *)
(***************************************************************************)
\* The (start, end) of the calls of count_trie_nodes (lines 352-353).
CountCalls == {<<PlanBounds(i), PlanBounds(i + 1)>> : i \in 0..(ntries - 1)}

C24_BlocksNonEmpty ==
  mainpc = "run" =>
    /\ ntries >= 1 /\ ntries <= nitems
    /\ \A i \in 0..(ntries - 1) : PlanBounds(i) < PlanBounds(i + 1)
    /\ \A c \in CountCalls : c[1] < c[2]
    /\ \A t \in DOMAIN tries : \A j \in DOMAIN tries[t].jobs :
         tries[t].jobs[j].start <= tries[t].jobs[j].end

\* Two threads and seven unique sequences: seven tries, and every block is
\* one sequence.
C24_Witness ==
  /\ mainpc = "run"
  /\ thrmax = 2 /\ ntries = 7 /\ nitems = 7
  /\ \A t \in DOMAIN tries : \A j \in DOMAIN tries[t].jobs :
       tries[t].jobs[j].start = tries[t].jobs[j].end

(***************************************************************************)
(* C25: during seqsort, for any thrmax and any interleaving of the sort    *)
(* helper threads, every input record ends in exactly one of two ways: it  *)
(* appears exactly once in the final output, or it is destroyed exactly    *)
(* once; no record is destroyed twice, no destroyed record is dereferenced *)
(* by a later merge step, and no destroyed record appears in the output.   *)
(***************************************************************************)
\* The slots of the caller's array that hold the record id.
SlotsOf(id) == {k \in DOMAIN items : items[k] = id}

C25_OnceOutOrOnceDestroyed ==
  /\ ~sorter.uaf /\ ~sorter.dfree
  /\ (mainpc = "ntries" /\ sorter # NoSort) =>
       \A id \in DOMAIN input :
         IF heap[id].freed
           THEN SlotsOf(id) = {}
           ELSE /\ Cardinality(SlotsOf(id)) = 1
                /\ \A k \in SlotsOf(id) : k < nitems

\* Five records sorted by four threads: duplicates were destroyed in a leaf
\* merge and in the last merge, and a record survived.
C25_Witness ==
  /\ mainpc = "ntries" /\ sorter # NoSort
  /\ thrmax = 4
  /\ Len(input) = 5
  /\ heap[2].freed /\ heap[5].freed /\ ~heap[1].freed
  /\ input[1].seq = input[2].seq /\ input[1].seq = input[5].seq
  /\ nitems = 3

(***************************************************************************)
(* C26: for a filter made by new_lookup(median, height, tau) with          *)
(* 1 <= median <= height and tau >= 0, and any sequence of exactly height  *)
(* characters, every position read by lut_insert and lut_search lies       *)
(* inside the sequence (offset + j >= 0 and offset + j + klen[i] <= height *)
(* whenever klen[i] > 0); hence lut_search never returns -1 and lut_insert *)
(* never returns 1.                                                        *)
(***************************************************************************)
\* The shifts j that lut_search tries for k-mer i; lut_insert tries 0.
Shifts(l, i) == (-(l.kmers - 1 - i))..(l.kmers - 1 - i)

\* The read of k-mer i at shift j stays inside a sequence of height bytes.
ReadInside(l, i, j) ==
  /\ KmerOffset(l, i) + j >= 0
  /\ KmerOffset(l, i) + j + l.klen[i] <= height

C26_ReadsInside ==
  /\ fl.slen = height /\ fl.kmers = tau + 1
  /\ \A i \in 0..(fl.kmers - 1) :
       /\ fl.klen[i] > 0 => \A j \in Shifts(fl, i) : ReadInside(fl, i, j)
       /\ \A b \in PaddedSeqs(height) : \A j \in Shifts(fl, i) :
            seq2id(b, KmerOffset(fl, i) + j, fl.klen[i]) \notin {-2, -3}
  /\ \A b \in PaddedSeqs(height) :
       lut_search(fl, b) # -1 /\ lut_insert(fl, b).ret # 1
  /\ fq # <<>> => fres # -1
  /\ (fq = <<>> /\ fins # {}) => fres # 1

\* A search that read both 1-mers of a sequence of three bytes, the first
\* one at the shifts -1, 0 and 1, and found none of them in the filter.
C26_Witness ==
  /\ tau = 1 /\ med = 3 /\ height = 3
  /\ fl.klen[0] = 1 /\ fl.klen[1] = 1
  /\ KmerOffset(fl, 0) = 1
  /\ fins # {}
  /\ fq # <<>>
  /\ \A p \in 1..3 : BaseCode(fq[p]) >= 0
  /\ fres = 0

====
